---- MODULE Spec2Model ----
(***************************************************************************)
(* Verification model of the order filtering / summarization engine of     *)
(* the Warframe.Market MCP server:                                         *)
(*   src/src/tools/get_orders.ts   getOrdersSummary (wfm_get_orders)       *)
(*   src/src/tools/best_flips.ts   handler          (wfm_best_flips)       *)
(*   src/src/utils/http.ts         wfmFetch                                *)
(*                                                                         *)
(* Encoding of JavaScript values                                           *)
(*   - an optional value (undefined / null / missing property) is the      *)
(*     empty tuple None, a present value v is the 1-tuple Some(v);         *)
(*   - a JavaScript number is an exact rational [n, d] in lowest terms     *)
(*     with d > 0; d = 0 encodes the non-finite results of a division by   *)
(*     zero (n = 1: Infinity, n = -1: -Infinity, n = 0: NaN);              *)
(*   - url_name values are tagged with their typeof, [t, s].               *)
(* Header-only arguments (platform, language, include_item) and the quote  *)
(* fields copied verbatim (last_update, platform, subtype) take no part in *)
(* any decision and are left out.                                          *)
(***************************************************************************)
EXTENDS Integers, Sequences, FiniteSets, TLC

VARIABLES pc, tool, oargs, fargs, sargs, items, targets, idx, results, fetched, net, ret

(* two requests in flight at once: the locals of each call, and the arrays  *)
(* the calls allocate                                                      *)
VARIABLES reqs, heap

soloVars == <<pc, tool, oargs, fargs, sargs, items, targets, idx, results, fetched, net, ret>>
pairVars == <<reqs, heap>>
vars == <<soloVars, pairVars>>

----------------------------------------------------------------------------
(* Bounds of the model *)

MaxPrice == 2
MaxLean == 2
MaxRich == 2
MaxTargets == 3
MaxPairTargets == 2

----------------------------------------------------------------------------
(* Optional values *)

None == << >>
Some(v) == <<v>>
Has(o) == o # None
Val(o) == o[1]

(* a ?? b *)
Coalesce(o, dflt) == IF Has(o) THEN Val(o) ELSE dflt

----------------------------------------------------------------------------
(* JavaScript numbers as exact rationals *)

Abs(i) == IF i < 0 THEN -i ELSE i
Sign(i) == IF i < 0 THEN -1 ELSE IF i > 0 THEN 1 ELSE 0

RECURSIVE Gcd(_, _)
Gcd(a, b) == IF b = 0 THEN a ELSE Gcd(b, a % b)

Norm(n, d) ==
    IF d = 0 THEN [n |-> Sign(n), d |-> 0]
    ELSE LET g == Gcd(Abs(n), Abs(d))
         IN  [n |-> (Sign(d) * n) \div g, d |-> Abs(d) \div g]

Num(i) == [n |-> i, d |-> 1]
Zero == Num(0)
NegInfinity == [n |-> -1, d |-> 0]
IsFinite(x) == x.d # 0

NumAdd(x, y) == Norm(x.n * y.d + y.n * x.d, x.d * y.d)
NumSub(x, y) == Norm(x.n * y.d - y.n * x.d, x.d * y.d)
NumDiv(x, y) == Norm(x.n * y.d, x.d * y.n)
NumLeq(x, y) == x.n * y.d <= y.n * x.d
NumLt(x, y) == x.n * y.d < y.n * x.d

(* Sign of the comparator value x - y as Array.prototype.sort reads it:    *)
(* a NaN difference (-Infinity - -Infinity) counts as +0.                  *)
DiffSign(x, y) ==
    IF ~IsFinite(x) /\ ~IsFinite(y) THEN (IF x = y THEN 0 ELSE Sign(x.n - y.n))
    ELSE IF ~IsFinite(x) THEN Sign(x.n)
    ELSE IF ~IsFinite(y) THEN -Sign(y.n)
    ELSE Sign(x.n * y.d - y.n * x.d)

(* Truthiness of an optional number: null, 0 and NaN are falsy *)
Truthy(o) == Has(o) /\ Val(o).n # 0

----------------------------------------------------------------------------
(* Array.prototype.sort: stable, ordered by the sign of cmp(a, b)          *)

InsertSorted(s, x, cmp(_, _)) ==
    LET keep == {j \in 1..Len(s) : cmp(s[j], x) <= 0}
        p == IF keep = {} THEN 0 ELSE CHOOSE j \in keep : \A q \in keep : q <= j
    IN  SubSeq(s, 1, p) \o <<x>> \o SubSeq(s, p + 1, Len(s))

Sort(arr, cmp(_, _)) ==
    LET ins[i \in 0..Len(arr)] ==
            IF i = 0 THEN << >> ELSE InsertSorted(ins[i - 1], arr[i], cmp)
    IN  ins[Len(arr)]

Filter(arr, keep(_)) == SelectSeq(arr, keep)

Map(arr, f(_)) == [i \in 1..Len(arr) |-> f(arr[i])]

Min(a, b) == IF a <= b THEN a ELSE b
Max(a, b) == IF a >= b THEN a ELSE b

----------------------------------------------------------------------------
(* getOrdersSummary: the Order Filter *)

DefaultArgs ==
    [url_name |-> [t |-> "string", s |-> <<"a">>], summarize |-> None,
     status |-> None, min_reputation |-> None, region |-> None, depth |-> None]

(* status = "any" by default *)
StatusOf(a) == Coalesce(a.status, "any")

(* o.user?.status, o.user?.reputation, o.user?.region *)
UserStatus(o) == IF Has(o.user) THEN Val(o.user).status ELSE None
UserReputation(o) == IF Has(o.user) THEN Val(o.user).reputation ELSE None
UserRegion(o) == IF Has(o.user) THEN Val(o.user).region ELSE None

(* variant: the online floor forgets the sellers who are in game *)
statusOkOnlineOnly(status, u) ==
    IF status = "any" THEN TRUE
    ELSE IF ~Has(u) \/ u = Some("") THEN FALSE
    ELSE IF status = "ingame" THEN Val(u) = "ingame"
    ELSE IF status = "online" THEN Val(u) = "online"
    ELSE TRUE

(* variant: the ingame floor only turns away the sellers who are online *)
statusOkIngameLoose(status, u) ==
    IF status = "any" THEN TRUE
    ELSE IF ~Has(u) \/ u = Some("") THEN FALSE
    ELSE IF status = "ingame" THEN Val(u) # "online"
    ELSE IF status = "online" THEN Val(u) = "ingame" \/ Val(u) = "online"
    ELSE TRUE

statusOk(status, u) ==
    IF status = "any" THEN TRUE
    ELSE IF ~Has(u) \/ u = Some("") THEN FALSE
    ELSE IF status = "ingame" THEN Val(u) = "ingame"
    ELSE IF status = "online" THEN Val(u) = "ingame" \/ Val(u) = "online"
    ELSE TRUE

(* variant: only an order flagged visible is kept *)
visibleOkStrict(o) == o.visible = Some(TRUE)

visibleOk(o) == o.visible # Some(FALSE)

(* variant: the floor is tested for truthiness, so a floor of 0 is no floor *)
reputationOkTruthy(a, o) ==
    (Has(a.min_reputation) /\ Val(a.min_reputation) # 0) =>
        (Has(UserReputation(o)) /\ Val(UserReputation(o)) >= Val(a.min_reputation))

(* (o.user?.reputation ?? -Infinity) >= min_reputation *)
reputationOk(a, o) ==
    Has(a.min_reputation) =>
        (Has(UserReputation(o)) /\ Val(UserReputation(o)) >= Val(a.min_reputation))

(* if (region): the empty string is falsy *)
regionSet(a) == Has(a.region) /\ a.region # Some("")

(* variant: the seller's region is consulted only when the order has none *)
regionOkOrderFirst(a, o) ==
    regionSet(a) =>
        (IF Has(o.region) THEN o.region = a.region ELSE UserRegion(o) = a.region)

regionOk(a, o) ==
    regionSet(a) => (o.region = a.region \/ UserRegion(o) = a.region)

(* variant: rejected orders are spliced out of the array while it is walked *)
(* by index, so the order that follows a rejected one is never tested       *)
filterOrdersSplicing(a, orders) ==
    LET keep(o) == /\ visibleOk(o)
                   /\ statusOk(StatusOf(a), UserStatus(o))
                   /\ reputationOk(a, o)
                   /\ regionOk(a, o)
        gone[j \in 0..Len(orders)] ==
            IF j = 0 THEN FALSE ELSE ~gone[j - 1] /\ ~keep(orders[j])
        kept == SelectSeq([j \in 1..Len(orders) |-> j], LAMBDA j : ~gone[j])
    IN  [j \in 1..Len(kept) |-> orders[kept[j]]]

filterOrders(a, orders) ==
    LET s1 == Filter(orders, visibleOk)
        s2 == Filter(s1, LAMBDA o : statusOk(StatusOf(a), UserStatus(o)))
        s3 == Filter(s2, LAMBDA o : reputationOk(a, o))
    IN  Filter(s3, LAMBDA o : regionOk(a, o))

----------------------------------------------------------------------------
(* getOrdersSummary: sides, best quotes, midpoints, spread *)

(* variant: the sells are ranked dearest first *)
sellCmpDescending(a, b) == b.platinum - a.platinum

sellCmp(a, b) == a.platinum - b.platinum
buyCmp(a, b) == b.platinum - a.platinum
ascCmp(a, b) == a - b

(* variant: the sells are ranked by a sort that turns ties around *)
sellsOfTiesReversed(orders) ==
    LET sells == Filter(orders, LAMBDA o : o.order_type = "sell")
    IN  Sort([i \in 1..Len(sells) |-> sells[Len(sells) + 1 - i]], sellCmp)

sellsOf(orders) == Sort(Filter(orders, LAMBDA o : o.order_type = "sell"), sellCmp)
(* variant: whatever is not a sell order is ranked as a buy order *)
buysOfNotSell(orders) == Sort(Filter(orders, LAMBDA o : o.order_type # "sell"), buyCmp)

buysOf(orders) == Sort(Filter(orders, LAMBDA o : o.order_type = "buy"), buyCmp)

(* Number(depth) || 5, clamped to 1..10 *)
depthK(a) ==
    LET d == Coalesce(a.depth, 5)
    IN  Max(1, Min(10, IF d = 0 THEN 5 ELSE d))

(* variant: an even window yields the sum of its two middle elements *)
midNoHalving(k, arr) ==
    IF Len(arr) = 0 THEN None
    ELSE LET slice == Sort(Map(SubSeq(arr, 1, Min(k, Len(arr))),
                               LAMBDA x : x.platinum), ascCmp)
             m == Len(slice) \div 2
         IN  IF Len(slice) % 2 = 1 THEN Some(Num(slice[m + 1]))
             ELSE Some(Num(slice[m] + slice[m + 1]))

(* variant: an even window yields its upper middle element, not the mean *)
midUpper(k, arr) ==
    IF Len(arr) = 0 THEN None
    ELSE LET slice == Sort(Map(SubSeq(arr, 1, Min(k, Len(arr))),
                               LAMBDA x : x.platinum), ascCmp)
             m == Len(slice) \div 2
         IN  Some(Num(slice[m + 1]))

mid(k, arr) ==
    IF Len(arr) = 0 THEN None
    ELSE LET slice == Sort(Map(SubSeq(arr, 1, Min(k, Len(arr))),
                               LAMBDA x : x.platinum), ascCmp)
             m == Len(slice) \div 2
         IN  IF Len(slice) % 2 = 1 THEN Some(Num(slice[m + 1]))
             ELSE Some(NumDiv(Num(slice[m] + slice[m + 1]), Num(2)))

(* variant: the operands of the subtraction are swapped *)
spreadAbsSwapped(mid_sell, mid_buy) ==
    NumSub(Coalesce(mid_sell, Zero), Coalesce(mid_buy, Zero))

(* (mid_buy ?? 0) - (mid_sell ?? 0) *)
spreadAbs(mid_sell, mid_buy) == NumSub(Coalesce(mid_buy, Zero), Coalesce(mid_sell, Zero))

(* variant: only a null sell midpoint is guarded, a zero one is divided by *)
spreadPctNullGuard(mid_sell, spread_abs) ==
    IF Has(mid_sell) THEN Some(NumDiv(spread_abs, Val(mid_sell))) ELSE None

(* mid_sell ? spread_abs / mid_sell : null *)
spreadPct(mid_sell, spread_abs) ==
    IF Truthy(mid_sell) THEN Some(NumDiv(spread_abs, Val(mid_sell))) ELSE None

quote(top) ==
    [platinum |-> top.platinum, quantity |-> top.quantity,
     user |-> IF Has(top.user) THEN Val(top.user).ingame_name ELSE None,
     region |-> top.region,
     status |-> UserStatus(top), reputation |-> UserReputation(top)]

topOf(arr) == IF Len(arr) > 0 THEN Some(quote(arr[1])) ELSE None

summaryOf(a, orders) ==
    LET kept == filterOrders(a, orders)
        sells == sellsOf(kept)
        buys == buysOf(kept)
        k == depthK(a)
        mid_sell == mid(k, sells)
        mid_buy == mid(k, buys)
        spread_abs == spreadAbs(mid_sell, mid_buy)
    IN  [best_sell |-> topOf(sells), best_buy |-> topOf(buys),
         midpoints |-> [sell |-> mid_sell, buy |-> mid_buy],
         spread |-> [absolute |-> spread_abs, pct |-> spreadPct(mid_sell, spread_abs)],
         totals |-> [sells |-> Len(sells), buys |-> Len(buys)],
         filters |-> [status |-> StatusOf(a), min_reputation |-> a.min_reputation,
                      region |-> a.region, depth |-> k]]

(* !url_name || typeof url_name !== "string" *)
(* variant: only the type of url_name is looked at *)
validSlugTypeOnly(u) == u.t = "string"

validSlug(u) == u.t = "string" /\ u.s # << >>

RequiredMsg == "'url_name' (string) is required"


----------------------------------------------------------------------------
(* wfm_best_flips: rows, threshold and ranking *)

FlipsDefault ==
    [url_names |-> None, query |-> None, limit_search |-> None, status |-> None,
     min_reputation |-> None, region |-> None, depth |-> None,
     min_spread_pct |-> None]

(* variant: status and depth are passed on as given, without the defaults *)
itemArgsBare(fa, slug) ==
    [url_name |-> slug, summarize |-> Some(TRUE), status |-> fa.status,
     min_reputation |-> fa.min_reputation, region |-> fa.region, depth |-> fa.depth]

(* the arguments handed to getOrdersSummary for one slug *)
itemArgs(fa, slug) ==
    [url_name |-> slug, summarize |-> Some(TRUE),
     status |-> Some(Coalesce(fa.status, "ingame")),
     min_reputation |-> fa.min_reputation, region |-> fa.region,
     depth |-> Some(Coalesce(fa.depth, 3))]

(* variant: the ranker reports the magnitude of the difference *)
flipSpreadAbsMagnitude(sell, buy) ==
    LET d == NumSub(Coalesce(buy, Zero), Coalesce(sell, Zero))
    IN  IF NumLt(d, Zero) THEN NumSub(Zero, d) ELSE d

(* (buy ?? 0) - (sell ?? 0) and sell ? spreadAbs / sell : null, as recomputed by the ranker *)
flipSpreadAbs(sell, buy) == NumSub(Coalesce(buy, Zero), Coalesce(sell, Zero))
flipSpreadPct(sell, spread_abs) ==
    IF Truthy(sell) THEN Some(NumDiv(spread_abs, Val(sell))) ELSE None

(* variant: a spread equal to the threshold is discarded *)
passesThresholdStrict(fa, pct) ==
    Has(pct) /\ NumLt(Coalesce(fa.min_spread_pct, Zero), Val(pct))

(* spreadPct !== null && spreadPct >= min_spread_pct *)
passesThreshold(fa, pct) ==
    Has(pct) /\ NumLeq(Coalesce(fa.min_spread_pct, Zero), Val(pct))

errorRow(slug, msg) ==
    [url_name |-> slug, error |-> Some(msg), mid_sell |-> None, mid_buy |-> None,
     spread_abs |-> None, spread_pct |-> None, totals |-> None, filters |-> None,
     best_sell |-> None, best_buy |-> None]

flipRow(slug, summary) ==
    LET sell == summary.midpoints.sell
        buy == summary.midpoints.buy
        spread_abs == flipSpreadAbs(sell, buy)
    IN  [url_name |-> slug, error |-> None, mid_sell |-> sell, mid_buy |-> buy,
         spread_abs |-> Some(spread_abs),
         spread_pct |-> flipSpreadPct(sell, spread_abs),
         totals |-> Some(summary.totals), filters |-> Some(summary.filters),
         best_sell |-> summary.best_sell, best_buy |-> summary.best_buy]

(* the try branch of the loop body, after the summary is back *)
pushRow(fa, res, slug, summary) ==
    LET row == flipRow(slug, summary)
    IN  IF passesThreshold(fa, row.spread_pct) THEN Append(res, row) ELSE res

(* variant: the catch branch loses the rows gathered so far *)
pushErrorOnly(res, slug, msg) == <<errorRow(slug, msg)>>

(* the catch branch of the loop body *)
pushError(res, slug, msg) == Append(res, errorRow(slug, msg))

(* variant: the comparator is written the other way round *)
rankCmpAscending(a, b) ==
    DiffSign(Coalesce(a.spread_pct, NegInfinity), Coalesce(b.spread_pct, NegInfinity))

(* (b.spread_pct ?? -Infinity) - (a.spread_pct ?? -Infinity) *)
rankCmp(a, b) ==
    DiffSign(Coalesce(b.spread_pct, NegInfinity), Coalesce(a.spread_pct, NegInfinity))

sortResults(res) == Sort(res, rankCmp)

----------------------------------------------------------------------------
(* wfm_best_flips: target resolution over the /items catalog *)

toLowerCase(str) ==
    [i \in 1..Len(str) |->
        IF str[i] = "A" THEN "a" ELSE IF str[i] = "B" THEN "b"
        ELSE IF str[i] = "C" THEN "c" ELSE str[i]]

includes(str, q) ==
    \E i \in 0..(Len(str) - Len(q)) : SubSeq(str, i + 1, i + Len(q)) = q

(* it?.item_name?.toLowerCase?.().includes(q) || it?.url_name?.toLowerCase?.().includes(q) *)
itemMatches(it, q) ==
    \/ Has(it.item_name) /\ includes(toLowerCase(Val(it.item_name)), q)
    \/ Has(it.url_name) /\ includes(toLowerCase(Val(it.url_name)), q)

(* Math.max(1, Math.min(50, Number(limit_search) || 10)) *)
searchLimit(fa) ==
    LET l == Coalesce(fa.limit_search, 10)
    IN  Max(1, Min(50, IF l = 0 THEN 10 ELSE l))

(* it.url_name of a catalog entry, as the value the loop will see *)
slugOf(it) ==
    IF Has(it.url_name) THEN [t |-> "string", s |-> Val(it.url_name)]
    ELSE [t |-> "undefined", s |-> << >>]

searchTargets(fa, catalog) ==
    LET q == toLowerCase(Val(fa.query))
        hits == Filter(catalog, LAMBDA it : itemMatches(it, q))
    IN  Map(SubSeq(hits, 1, Min(searchLimit(fa), Len(hits))), slugOf)

(* Array.isArray(url_names) && url_names.length ? url_names : [] *)
explicitTargets(fa) == Coalesce(fa.url_names, << >>)

(* if (!targets.length && query): the empty string is falsy *)
wantsSearch(fa) == Len(explicitTargets(fa)) = 0 /\ Has(fa.query) /\ Val(fa.query) # << >>

NoTargetsMsg == "Provide either 'url_names' or 'query'"


----------------------------------------------------------------------------
(* wfm_price_snapshot: price_snapshot.ts holds two definitions of handler   *)
(* under the same export; which of the two a build keeps is open, so both   *)
(* are modelled and a request may run either                                *)

SnapshotDefault ==
    [url_name |-> [t |-> "string", s |-> <<"a">>],
     status |-> None, min_reputation |-> None, region |-> None, depth |-> None]

(* if (!url_name): undefined and the empty string are falsy *)
truthySlug(u) == u.t # "undefined" /\ u.s # << >>

SnapshotRequiredMsg == "'url_name' is required"

(* the first definition: the four filters are passed on *)
snapshotArgs(a) ==
    [url_name |-> a.url_name, summarize |-> Some(TRUE), status |-> a.status,
     min_reputation |-> a.min_reputation, region |-> a.region, depth |-> a.depth]

(* the second definition: { url_name, platform, language, summarize: true } *)
snapshotArgsBare(a) ==
    [url_name |-> a.url_name, summarize |-> Some(TRUE), status |-> None,
     min_reputation |-> None, region |-> None, depth |-> None]

(* { url_name, platform, summary } without the platform header *)
snapshotOf(a, summary) == [url_name |-> a.url_name, summary |-> summary]

----------------------------------------------------------------------------
(* Bounded inputs: upstream order books *)

SeqsUpTo(S, n) == UNION {[1..m -> S] : m \in 0..n}

User(status, reputation, region) ==
    Some([status |-> status, reputation |-> reputation, region |-> region,
          ingame_name |-> Some("tenno")])

Order(type, platinum, p) ==
    [order_type |-> type, platinum |-> platinum, quantity |-> 1,
     visible |-> p.visible, user |-> p.user, region |-> p.region]

(* seller ingame, reputation 5, region en, visible flag absent *)
LeanProfile ==
    [visible |-> None, user |-> User(Some("ingame"), Some(5), Some("en")),
     region |-> Some("en")]

Sides == {"sell", "buy"}

(* orders that differ in side and price only *)
LeanOrders == {Order(t, pl, LeanProfile) : t \in Sides, pl \in 0..MaxPrice}

(* orders that differ in what the Order Filter reads: a hidden order, the   *)
(* seller statuses, a missing seller, missing reputation, diverging         *)
(* regions; several of them tie on the price within their side              *)
RichOrders ==
    { Order("sell", 2, LeanProfile),
      Order("buy", 2, LeanProfile),
      Order("sell", 1, [visible |-> Some(FALSE),
                        user |-> User(Some("ingame"), Some(5), Some("en")),
                        region |-> Some("en")]),
      Order("sell", 1, [visible |-> Some(TRUE),
                        user |-> User(Some("online"), None, None),
                        region |-> None]),
      Order("buy", 2, [visible |-> None,
                       user |-> User(Some("online"), Some(5), Some("ru")),
                       region |-> Some("ru")]),
      Order("buy", 3, [visible |-> None,
                       user |-> User(Some("offline"), Some(0), Some("en")),
                       region |-> Some("ru")]),
      Order("sell", 1, [visible |-> None,
                        user |-> User(None, Some(1), Some("ru")),
                        region |-> Some("en")]),
      Order("sell", 1, [visible |-> None, user |-> None, region |-> Some("en")]) }

(* books holding an order that is neither a sell nor a buy order *)
OddBooks ==
    { << Order("closed", 1, LeanProfile) >>,
      << Order("closed", 1, LeanProfile), Order("sell", 2, LeanProfile) >>,
      << Order("buy", 1, LeanProfile), Order("closed", 3, LeanProfile) >> }

LeanBooks == SeqsUpTo(LeanOrders, MaxLean)
RichBooks == SeqsUpTo(RichOrders, MaxRich)

(* the scenario of the specification, section 8 *)
ScenarioBook ==
    << Order("sell", 100, LeanProfile), Order("sell", 120, LeanProfile),
       Order("sell", 80, LeanProfile), Order("buy", 90, LeanProfile),
       Order("buy", 60, LeanProfile) >>

(* books of the ranked items: spread percent 1 (5/3 if the dearer buy order *)
(* of a seller who is only online counted), -1/2, absent for want of sells, *)
(* 0, and -1 for want of buys                                               *)
FlipBooks ==
    { << Order("sell", 1, LeanProfile), Order("buy", 2, LeanProfile),
         Order("buy", 3, [LeanProfile EXCEPT
                             !.user = User(Some("online"), Some(5), Some("en"))]) >>,
      << Order("sell", 2, LeanProfile), Order("buy", 1, LeanProfile) >>,
      << Order("buy", 2, LeanProfile) >>,
      << Order("buy", 2, LeanProfile), Order("sell", 2, LeanProfile) >>,
      << Order("sell", 2, LeanProfile) >> }

FetchErrors == {"fetch failed", "WFM GET -> 503 Service Unavailable"}
FlipFetchErrors == {"WFM GET -> 503 Service Unavailable"}

----------------------------------------------------------------------------
(* Bounded inputs: request arguments *)

Str(chars) == [t |-> "string", s |-> chars]
SlugA == Str(<<"a">>)
SlugB == Str(<<"b">>)
BadSlugs == {Str(<< >>), [t |-> "number", s |-> <<"7">>], [t |-> "undefined", s |-> << >>]}

FilterArgs ==
    {[DefaultArgs EXCEPT !.status = st, !.min_reputation = mr, !.region = rg,
                         !.summarize = sm] :
        st \in {None, Some("online"), Some("ingame")},
        mr \in {None, Some(1)}, rg \in {None, Some("en")},
        sm \in {None, Some(FALSE)}}

DepthArgs ==
    {[DefaultArgs EXCEPT !.depth = d] : d \in {None, Some(0), Some(1), Some(2)}}

(* raw listings under a zero and a negative reputation floor, and under a   *)
(* region given as the empty string                                         *)
FloorArgs ==
    {[DefaultArgs EXCEPT !.min_reputation = Some(mr), !.summarize = Some(FALSE)] :
        mr \in {0, -1}}
    \cup {[DefaultArgs EXCEPT !.region = Some(""), !.summarize = Some(FALSE)]}

(* depths on and beyond the edges of the window range *)
EdgeDepthArgs ==
    {[DefaultArgs EXCEPT !.depth = Some(d)] : d \in {-1, 10, 11}}

BadArgs == {[DefaultArgs EXCEPT !.url_name = u] : u \in BadSlugs}

OrdersArgs == FilterArgs \cup FloorArgs \cup DepthArgs \cup EdgeDepthArgs \cup BadArgs

(* the books enumerated against a request: every filter combination meets  *)
(* the books with mixed sellers, every depth meets the longer books         *)
BooksFor(a) ==
    (IF a \in FilterArgs \cup FloorArgs THEN RichBooks ELSE {})
        \cup (IF a \in DepthArgs THEN LeanBooks \cup {ScenarioBook} ELSE {})
        \cup (IF a \in EdgeDepthArgs THEN {ScenarioBook} ELSE {})
        \cup (IF a = DefaultArgs THEN OddBooks ELSE {})

Catalog ==
    << [item_name |-> Some(<<"A", "b">>), url_name |-> Some(<<"a">>)],
       [item_name |-> Some(<<"B">>), url_name |-> Some(<<"b">>)],
       [item_name |-> None, url_name |-> Some(<<"b", "a">>)] >>

Catalogs == {Catalog, << >>}

(* snapshot requests with no filter, with each filter alone, and with a     *)
(* url_name that is missing or not a string                                 *)
SnapshotArgs ==
    { SnapshotDefault,
      [SnapshotDefault EXCEPT !.status = Some("ingame")],
      [SnapshotDefault EXCEPT !.min_reputation = Some(1)],
      [SnapshotDefault EXCEPT !.region = Some("en")],
      [SnapshotDefault EXCEPT !.depth = Some(1)],
      [SnapshotDefault EXCEPT !.url_name = [t |-> "undefined", s |-> << >>]],
      [SnapshotDefault EXCEPT !.url_name = [t |-> "number", s |-> <<"7">>]] }

(* a, b, a, b, ... of every length, the same with one entry replaced by the *)
(* empty string, and a list whose second entry is a number                  *)
GoodTargets(m) == [i \in 1..m |-> IF i % 2 = 1 THEN SlugA ELSE SlugB]

TargetLists ==
    {GoodTargets(m) : m \in 1..MaxTargets}
        \cup {[GoodTargets(p[1]) EXCEPT ![p[2]] = Str(<< >>)] :
                 p \in {q \in (1..MaxTargets) \X (1..MaxTargets) : q[2] <= q[1]}}
        \cup {<<SlugA, [t |-> "number", s |-> <<"7">>]>>}

FlipsArgs ==
    {[FlipsDefault EXCEPT !.url_names = Some(ts), !.min_spread_pct = ms] :
        ts \in TargetLists, ms \in {None, Some(Norm(1, 2))}}
    \cup
    {[FlipsDefault EXCEPT !.url_names = Some(GoodTargets(1)),
                          !.min_spread_pct = Some(Num(-2))]}
    \cup
    {[FlipsDefault EXCEPT !.url_names = un, !.query = q, !.limit_search = l] :
        un \in {None, Some(<< >>)},
        q \in {None, Some(<<"A">>), Some(<<"b">>), Some(<<"c">>)},
        l \in {None, Some(0), Some(1), Some(2)}}
    \cup
    {[FlipsDefault EXCEPT !.url_names = Some(GoodTargets(1)), !.query = Some(<<"b">>)]}

----------------------------------------------------------------------------
(* State machine: one request at a time, one action per run of a handler   *)
(* between two awaits                                                      *)

NoRet == [kind |-> "none", val |-> None]
Thrown(msg) == [kind |-> "error", val |-> msg]

OkResp(orders) == [kind |-> "ok", orders |-> orders, error |-> ""]
FailResp(msg) == [kind |-> "fail", orders |-> << >>, error |-> msg]
NoFetch == [kind |-> "invalid", orders |-> << >>, error |-> RequiredMsg]

OrdersCall(slug) == [path |-> "orders", slug |-> slug.s]
ItemsCall == [path |-> "items", slug |-> << >>]

(* the two calls, and the locals of a call that has not started *)
Slots == {1, 2}

IdleFrame ==
    [pc |-> "idle", tool |-> "none", oargs |-> DefaultArgs, fargs |-> FlipsDefault,
     catalog |-> None, targets |-> << >>, idx |-> 0, fetched |-> << >>,
     net |-> << >>, ret |-> NoRet]

Init ==
    /\ pc = "idle"
    /\ tool = "none"
    /\ oargs = DefaultArgs
    /\ fargs = FlipsDefault
    /\ sargs = SnapshotDefault
    /\ items = None
    /\ targets = << >>
    /\ idx = 0
    /\ results = << >>
    /\ fetched = << >>
    /\ net = << >>
    /\ ret = NoRet
    /\ reqs = [i \in Slots |-> IdleFrame]
    /\ heap = [i \in Slots |-> << >>]

(* variant: the order fetch is issued before url_name is looked at *)
GetOrdersCallFetchFirst(a) ==
    /\ pc = "idle"
    /\ tool' = "wfm_get_orders"
    /\ oargs' = a
    /\ net' = Append(net, OrdersCall(a.url_name))
    /\ IF ~validSlug(a.url_name)
       THEN pc' = "thrown" /\ ret' = Thrown(RequiredMsg)
       ELSE pc' = "orders_await" /\ ret' = ret
    /\ UNCHANGED <<fargs, sargs, items, targets, idx, results, fetched>>

(* wfm_get_orders, up to the await of wfmFetch *)
GetOrdersCall(a) ==
    /\ pc = "idle"
    /\ tool' = "wfm_get_orders"
    /\ oargs' = a
    /\ IF ~validSlug(a.url_name)
       THEN /\ pc' = "thrown"
            /\ ret' = Thrown(RequiredMsg)
            /\ net' = net
       ELSE /\ pc' = "orders_await"
            /\ ret' = ret
            /\ net' = Append(net, OrdersCall(a.url_name))
    /\ UNCHANGED <<fargs, sargs, items, targets, idx, results, fetched>>

(* variant: the failure is swallowed and reported as an empty order list *)
GetOrdersFetchSwallowed(msg) ==
    /\ pc = "orders_await"
    /\ tool = "wfm_get_orders"
    /\ pc' = "returned"
    /\ ret' = [kind |-> "summary", val |-> summaryOf(oargs, << >>)]
    /\ fetched' = Append(fetched, FailResp(msg))
    /\ UNCHANGED <<tool, oargs, fargs, sargs, items, targets, idx, results, net>>

(* wfmFetch rejects: fetch threw, or the status was not ok *)
GetOrdersFetchFail(msg) ==
    /\ pc = "orders_await"
    /\ tool = "wfm_get_orders"
    /\ pc' = "thrown"
    /\ ret' = Thrown(msg)
    /\ fetched' = Append(fetched, FailResp(msg))
    /\ UNCHANGED <<tool, oargs, fargs, sargs, items, targets, idx, results, net>>

(* wfmFetch resolves with payload.orders = orders *)
GetOrdersFetchOk(orders) ==
    /\ pc = "orders_await"
    /\ tool = "wfm_get_orders"
    /\ pc' = "returned"
    /\ ret' = IF Coalesce(oargs.summarize, TRUE)
              THEN [kind |-> "summary", val |-> summaryOf(oargs, orders)]
              ELSE [kind |-> "orders", val |-> filterOrders(oargs, orders)]
    /\ fetched' = Append(fetched, OkResp(orders))
    /\ UNCHANGED <<tool, oargs, fargs, sargs, items, targets, idx, results, net>>

(* wfm_price_snapshot, either definition, up to the await of wfmFetch *)
SnapshotCall(a) ==
    /\ pc = "idle"
    /\ tool' = "wfm_price_snapshot"
    /\ sargs' = a
    /\ IF ~truthySlug(a.url_name)
       THEN /\ pc' = "thrown"
            /\ ret' = Thrown(SnapshotRequiredMsg)
            /\ UNCHANGED <<oargs, net>>
       ELSE \E fwd \in {snapshotArgs(a), snapshotArgsBare(a)} :
            /\ oargs' = fwd
            /\ IF ~validSlug(fwd.url_name)
               THEN /\ pc' = "thrown"
                    /\ ret' = Thrown(RequiredMsg)
                    /\ net' = net
               ELSE /\ pc' = "orders_await"
                    /\ ret' = ret
                    /\ net' = Append(net, OrdersCall(fwd.url_name))
    /\ UNCHANGED <<fargs, items, targets, idx, results, fetched>>

(* wfmFetch rejects inside getOrdersSummary: the handler has no try *)
SnapshotFetchFail(msg) ==
    /\ pc = "orders_await"
    /\ tool = "wfm_price_snapshot"
    /\ pc' = "thrown"
    /\ ret' = Thrown(msg)
    /\ fetched' = Append(fetched, FailResp(msg))
    /\ UNCHANGED <<tool, oargs, fargs, sargs, items, targets, idx, results, net>>

(* wfmFetch resolves: the Summary is wrapped and returned *)
SnapshotFetchOk(orders) ==
    /\ pc = "orders_await"
    /\ tool = "wfm_price_snapshot"
    /\ pc' = "returned"
    /\ ret' = [kind |-> "snapshot", val |-> snapshotOf(sargs, summaryOf(oargs, orders))]
    /\ fetched' = Append(fetched, OkResp(orders))
    /\ UNCHANGED <<tool, oargs, fargs, sargs, items, targets, idx, results, net>>


(* wfm_best_flips: the for loop from target i on, run until it awaits the   *)
(* next order fetch or falls out of the loop, sorts and returns. A slug     *)
(* that getOrdersSummary rejects throws before any fetch and is caught.     *)
RECURSIVE runLoop(_, _, _, _, _)
runLoop(tg, i, res, fet, nt) ==
    IF i > Len(tg)
    THEN [pc |-> "returned", idx |-> i, results |-> sortResults(res), fetched |-> fet,
          net |-> nt,
          ret |-> [kind |-> "flips",
                   val |-> [count |-> Len(res), results |-> sortResults(res)]]]
    ELSE IF ~validSlug(tg[i])
    THEN runLoop(tg, i + 1, pushError(res, tg[i], RequiredMsg), Append(fet, NoFetch), nt)
    ELSE [pc |-> "orders_await", idx |-> i, results |-> res, fetched |-> fet,
          net |-> Append(nt, OrdersCall(tg[i])), ret |-> NoRet]

(* variant: every order fetch is started before the loop awaits the first *)
startLoopBurst(tg, nt) ==
    IF Len(tg) = 0
    THEN [pc |-> "thrown", idx |-> 0, results |-> << >>, fetched |-> << >>, net |-> nt,
          ret |-> Thrown(NoTargetsMsg)]
    ELSE LET valid == SelectSeq(tg, validSlug)
         IN  runLoop(tg, 1, << >>, << >>,
                     nt \o [j \in 1..(Len(valid) - 1) |-> OrdersCall(valid[j + 1])])

(* if (!targets.length) throw, else enter the loop *)
startLoop(tg, nt) ==
    IF Len(tg) = 0
    THEN [pc |-> "thrown", idx |-> 0, results |-> << >>, fetched |-> << >>, net |-> nt,
          ret |-> Thrown(NoTargetsMsg)]
    ELSE runLoop(tg, 1, << >>, << >>, nt)

Becomes(st) ==
    /\ pc' = st.pc
    /\ idx' = st.idx
    /\ results' = st.results
    /\ fetched' = st.fetched
    /\ net' = st.net
    /\ ret' = st.ret

(* wfm_best_flips, up to the first await *)
FlipsCall(fa) ==
    /\ pc = "idle"
    /\ tool' = "wfm_best_flips"
    /\ fargs' = fa
    /\ IF wantsSearch(fa)
       THEN /\ targets' = << >>
            /\ pc' = "items_await"
            /\ net' = Append(net, ItemsCall)
            /\ UNCHANGED <<idx, results, fetched, ret>>
       ELSE /\ targets' = explicitTargets(fa)
            /\ Becomes(startLoop(explicitTargets(fa), net))
    /\ oargs' = IF pc' = "orders_await" THEN itemArgs(fa, targets'[idx']) ELSE oargs
    /\ UNCHANGED <<sargs, items>>

(* the /items fetch rejects: the handler has no try around it *)
FlipsItemsFail(msg) ==
    /\ pc = "items_await"
    /\ pc' = "thrown"
    /\ ret' = Thrown(msg)
    /\ UNCHANGED <<tool, oargs, fargs, sargs, items, targets, idx, results, fetched, net>>

(* the /items fetch resolves with payload.items = items *)
FlipsItemsOk(payload) ==
    /\ pc = "items_await"
    /\ items' = Some(payload)
    /\ targets' = searchTargets(fargs, payload)
    /\ Becomes(startLoop(targets', net))
    /\ oargs' = IF pc' = "orders_await" THEN itemArgs(fargs, targets'[idx']) ELSE oargs
    /\ UNCHANGED <<tool, fargs, sargs>>

(* variant: the loop body has no try, a failed order fetch ends the request *)
FlipsFetchFailAborts(msg) ==
    /\ pc = "orders_await"
    /\ tool = "wfm_best_flips"
    /\ pc' = "thrown"
    /\ ret' = Thrown(msg)
    /\ fetched' = Append(fetched, FailResp(msg))
    /\ UNCHANGED <<tool, oargs, fargs, sargs, items, targets, idx, results, net>>

(* variant: a failed order fetch is issued again *)
FlipsFetchFailRetried(msg) ==
    /\ pc = "orders_await"
    /\ tool = "wfm_best_flips"
    /\ net' = Append(net, OrdersCall(targets[idx]))
    /\ UNCHANGED <<pc, tool, oargs, fargs, sargs, items, targets, idx, results, fetched, ret>>

(* the order fetch of target idx rejects: caught, error row, loop goes on *)
FlipsFetchFail(msg) ==
    /\ pc = "orders_await"
    /\ tool = "wfm_best_flips"
    /\ Becomes(runLoop(targets, idx + 1, pushError(results, targets[idx], msg),
                       Append(fetched, FailResp(msg)), net))
    /\ oargs' = IF pc' = "orders_await" THEN itemArgs(fargs, targets[idx']) ELSE oargs
    /\ UNCHANGED <<tool, fargs, sargs, items, targets>>

(* the order fetch of target idx resolves: summary, threshold, loop goes on *)
FlipsFetchOk(orders) ==
    /\ pc = "orders_await"
    /\ tool = "wfm_best_flips"
    /\ Becomes(runLoop(targets, idx + 1,
                       pushRow(fargs, results, targets[idx], summaryOf(oargs, orders)),
                       Append(fetched, OkResp(orders)), net))
    /\ oargs' = IF pc' = "orders_await" THEN itemArgs(fargs, targets[idx']) ELSE oargs
    /\ UNCHANGED <<tool, fargs, sargs, items, targets>>

Next ==
    \/ \E a \in OrdersArgs : GetOrdersCall(a) /\ UNCHANGED pairVars
    \/ \E msg \in FetchErrors : GetOrdersFetchFail(msg) /\ UNCHANGED pairVars
    \/ \E orders \in BooksFor(oargs) : GetOrdersFetchOk(orders) /\ UNCHANGED pairVars
    \/ \E a \in SnapshotArgs : SnapshotCall(a) /\ UNCHANGED pairVars
    \/ \E msg \in FlipFetchErrors : SnapshotFetchFail(msg) /\ UNCHANGED pairVars
    \/ \E orders \in RichBooks : SnapshotFetchOk(orders) /\ UNCHANGED pairVars
    \/ \E fa \in FlipsArgs : FlipsCall(fa) /\ UNCHANGED pairVars
    \/ \E msg \in FetchErrors : FlipsItemsFail(msg) /\ UNCHANGED pairVars
    \/ \E payload \in Catalogs : FlipsItemsOk(payload) /\ UNCHANGED pairVars
    \/ \E msg \in FlipFetchErrors : FlipsFetchFail(msg) /\ UNCHANGED pairVars
    \/ \E orders \in FlipBooks : FlipsFetchOk(orders) /\ UNCHANGED pairVars

Spec == Init /\ [][Next]_vars

----------------------------------------------------------------------------
(* Two requests served at once: the handlers are async functions, a call    *)
(* runs up to its next await and any other call may run in between. Every   *)
(* variable of a handler is a local of the call; the configuration is made  *)
(* of constants read at startup and takes no part in any step.              *)

(* orders of the books and catalogs served to the two calls *)
PairBooks ==
    { << Order("sell", 1, LeanProfile), Order("buy", 2, LeanProfile) >>,
      << Order("buy", 2, LeanProfile), Order("sell", 2, LeanProfile) >> }

PairResponses ==
    {OkResp(b) : b \in PairBooks} \cup {FailResp(msg) : msg \in FlipFetchErrors}

PairCatalogs ==
    { [kind |-> "ok", items |-> Catalog, error |-> ""],
      [kind |-> "fail", items |-> << >>, error |-> "fetch failed"] }

PairOrdersArgs ==
    { DefaultArgs,
      [DefaultArgs EXCEPT !.summarize = Some(FALSE)],
      [DefaultArgs EXCEPT !.url_name = Str(<< >>)] }

PairFlipsArgs ==
    {[FlipsDefault EXCEPT !.url_names = Some(GoodTargets(m))] : m \in 1..MaxPairTargets}
    \cup {[FlipsDefault EXCEPT !.url_names = Some(<<Str(<< >>), SlugA>>)],
          [FlipsDefault EXCEPT !.query = Some(<<"b">>), !.limit_search = Some(1)],
          FlipsDefault}

(* variant: results is one array of the module, shared by all the calls *)
resultsCellShared(i) == 1

(* const results = [] is allocated by the call: one array per call *)
resultsCell(i) == i

(* the locals of a call after a run of the loop *)
afterLoop(f, st) ==
    [f EXCEPT !.pc = st.pc, !.idx = st.idx, !.fetched = st.fetched, !.net = st.net,
              !.ret = st.ret,
              !.oargs = IF st.pc = "orders_await"
                        THEN itemArgs(f.fargs, f.targets[st.idx]) ELSE f.oargs]

(* call i runs wfm_get_orders up to the await of wfmFetch *)
PairOrdersCall(i, a) ==
    /\ reqs[i].pc = "idle"
    /\ reqs' = [reqs EXCEPT ![i] =
                   IF ~validSlug(a.url_name)
                   THEN [reqs[i] EXCEPT !.tool = "wfm_get_orders", !.oargs = a,
                                        !.pc = "thrown", !.ret = Thrown(RequiredMsg)]
                   ELSE [reqs[i] EXCEPT !.tool = "wfm_get_orders", !.oargs = a,
                                        !.pc = "orders_await",
                                        !.net = Append(reqs[i].net,
                                                       OrdersCall(a.url_name))]]
    /\ UNCHANGED heap

(* the order fetch of call i settles: getOrdersSummary throws or returns *)
PairOrdersSettled(i, resp) ==
    /\ reqs[i].pc = "orders_await"
    /\ reqs[i].tool = "wfm_get_orders"
    /\ reqs' = [reqs EXCEPT ![i] =
                   [reqs[i] EXCEPT
                      !.fetched = Append(reqs[i].fetched, resp),
                      !.pc = IF resp.kind = "ok" THEN "returned" ELSE "thrown",
                      !.ret = IF resp.kind # "ok" THEN Thrown(resp.error)
                              ELSE IF Coalesce(reqs[i].oargs.summarize, TRUE)
                              THEN [kind |-> "summary",
                                    val |-> summaryOf(reqs[i].oargs, resp.orders)]
                              ELSE [kind |-> "orders",
                                    val |-> filterOrders(reqs[i].oargs, resp.orders)]]]
    /\ UNCHANGED heap

(* call i runs wfm_best_flips up to its first await *)
PairFlipsCall(i, fa) ==
    /\ reqs[i].pc = "idle"
    /\ IF wantsSearch(fa)
       THEN /\ reqs' = [reqs EXCEPT ![i] =
                          [reqs[i] EXCEPT !.tool = "wfm_best_flips", !.fargs = fa,
                                          !.pc = "items_await",
                                          !.net = Append(reqs[i].net, ItemsCall)]]
            /\ UNCHANGED heap
       ELSE LET f == [reqs[i] EXCEPT !.tool = "wfm_best_flips", !.fargs = fa,
                                     !.targets = explicitTargets(fa)]
                st == startLoop(f.targets, f.net)
            IN  /\ reqs' = [reqs EXCEPT ![i] = afterLoop(f, st)]
                /\ heap' = IF st.pc = "thrown" THEN heap
                           ELSE [heap EXCEPT ![resultsCell(i)] = st.results]

(* the /items fetch of call i settles *)
PairItemsSettled(i, resp) ==
    /\ reqs[i].pc = "items_await"
    /\ IF resp.kind # "ok"
       THEN /\ reqs' = [reqs EXCEPT ![i] =
                          [reqs[i] EXCEPT !.catalog = Some(resp), !.pc = "thrown",
                                          !.ret = Thrown(resp.error)]]
            /\ UNCHANGED heap
       ELSE LET f == [reqs[i] EXCEPT !.catalog = Some(resp),
                                     !.targets = searchTargets(reqs[i].fargs, resp.items)]
                st == startLoop(f.targets, f.net)
            IN  /\ reqs' = [reqs EXCEPT ![i] = afterLoop(f, st)]
                /\ heap' = IF st.pc = "thrown" THEN heap
                           ELSE [heap EXCEPT ![resultsCell(i)] = st.results]

(* the order fetch of the current target of call i settles: a row or an     *)
(* error row is pushed and the loop goes on                                 *)
PairFlipsSettled(i, resp) ==
    /\ reqs[i].pc = "orders_await"
    /\ reqs[i].tool = "wfm_best_flips"
    /\ LET f == reqs[i]
           slug == f.targets[f.idx]
           res == IF resp.kind = "ok"
                  THEN pushRow(f.fargs, heap[resultsCell(i)], slug,
                               summaryOf(f.oargs, resp.orders))
                  ELSE pushError(heap[resultsCell(i)], slug, resp.error)
           st == runLoop(f.targets, f.idx + 1, res, Append(f.fetched, resp), f.net)
       IN  /\ reqs' = [reqs EXCEPT ![i] = afterLoop(f, st)]
           /\ heap' = [heap EXCEPT ![resultsCell(i)] = st.results]

NextPair ==
    \/ \E i \in Slots, a \in PairOrdersArgs : PairOrdersCall(i, a) /\ UNCHANGED soloVars
    \/ \E i \in Slots, resp \in PairResponses :
          PairOrdersSettled(i, resp) /\ UNCHANGED soloVars
    \/ \E i \in Slots, fa \in PairFlipsArgs : PairFlipsCall(i, fa) /\ UNCHANGED soloVars
    \/ \E i \in Slots, resp \in PairCatalogs :
          PairItemsSettled(i, resp) /\ UNCHANGED soloVars
    \/ \E i \in Slots, resp \in PairResponses :
          PairFlipsSettled(i, resp) /\ UNCHANGED soloVars

SpecPair == Init /\ [][NextPair]_vars


----------------------------------------------------------------------------
(* Vocabulary of the properties *)

GotSummary == tool = "wfm_get_orders" /\ pc = "returned" /\ ret.kind = "summary"
GotOrders == tool = "wfm_get_orders" /\ pc = "returned" /\ ret.kind = "orders"
FlipsReturned == tool = "wfm_best_flips" /\ pc = "returned"

(* the upstream order list of the wfm_get_orders request *)
Book == fetched[1].orders

Range(seq) == {seq[i] : i \in 1..Len(seq)}
Count(seq, x) == Cardinality({i \in 1..Len(seq) : seq[i] = x})

(* an order passes the Order Filter *)
Eligible(a, o) ==
    /\ visibleOk(o)
    /\ statusOk(StatusOf(a), UserStatus(o))
    /\ reputationOk(a, o)
    /\ regionOk(a, o)

(* prices of the eligible orders of one side, in upstream order *)
SidePrices(a, orders, side) ==
    LET es == SelectSeq(orders, LAMBDA o : Eligible(a, o) /\ o.order_type = side)
    IN  [i \in 1..Len(es) |-> es[i].platinum]

(* the j-th smallest element of a list of integers *)
OrderStat(P, j) ==
    CHOOSE v \in Range(P) :
        /\ Cardinality({i \in 1..Len(P) : P[i] < v}) < j
        /\ Cardinality({i \in 1..Len(P) : P[i] <= v}) >= j

(* median of the order statistics lo+1 .. lo+w of P *)
MedianOfRun(P, lo, w) ==
    IF w % 2 = 1 THEN Num(OrderStat(P, lo + (w + 1) \div 2))
    ELSE Norm(OrderStat(P, lo + w \div 2) + OrderStat(P, lo + w \div 2 + 1), 2)

----------------------------------------------------------------------------
(* C1: when the order fetch of a wfm_get_orders request fails, the request  *)
(* ends in an error carrying that failure; it never returns a Summary or an *)
(* order list.                                                             *)
C1_FetchFailurePropagates ==
    (tool = "wfm_get_orders" /\ Len(fetched) > 0 /\ fetched[1].kind = "fail")
        => /\ pc = "thrown"
           /\ ret.kind = "error"
           /\ ret.val = fetched[1].error

C1_Witness ==
    /\ tool = "wfm_get_orders"
    /\ Len(fetched) = 1
    /\ fetched[1].kind = "fail"
    /\ ret = Thrown("WFM GET -> 503 Service Unavailable")


----------------------------------------------------------------------------
(* Vocabulary of the ranker properties *)

Rows == ret.val.results
IsErrorRow(r) == Has(r.error)
Failed(i) == fetched[i].kind # "ok"
Indices == [i \in 1..Len(targets) |-> i]
FailedIndices == SelectSeq(Indices, Failed)
OkIndices == SelectSeq(Indices, LAMBDA i : ~Failed(i))
Threshold == Coalesce(fargs.min_spread_pct, Zero)

(* the Summary of target i and the row made of it *)
SummaryAt(i) == summaryOf(itemArgs(fargs, targets[i]), fetched[i].orders)
RowAt(i) == flipRow(targets[i], SummaryAt(i))
ErrorRowAt(i) == errorRow(targets[i], fetched[i].error)

(* what the ranker returns for the targets tg when every fetch succeeds with books[j] *)
RankAlone(fa, tg, books) ==
    LET acc[j \in 0..Len(tg)] ==
            IF j = 0 THEN << >>
            ELSE pushRow(fa, acc[j - 1], tg[j], summaryOf(itemArgs(fa, tg[j]), books[j]))
    IN  sortResults(acc[Len(tg)])

(* C2: with a non-empty target list, a failing summarize never aborts       *)
(* wfm_best_flips: the call returns, every failed target has its error row, *)
(* and the other rows are those of the call without the failed targets.     *)
C2_FailureIsARow ==
    (tool = "wfm_best_flips" /\ Len(targets) > 0) =>
        /\ pc # "thrown"
        /\ pc = "returned" =>
            /\ ret.kind = "flips"
            /\ SelectSeq(Rows, IsErrorRow)
                 = [j \in 1..Len(FailedIndices) |-> ErrorRowAt(FailedIndices[j])]
            /\ SelectSeq(Rows, LAMBDA r : ~IsErrorRow(r))
                 = RankAlone(fargs,
                             [j \in 1..Len(OkIndices) |-> targets[OkIndices[j]]],
                             [j \in 1..Len(OkIndices) |-> fetched[OkIndices[j]].orders])

C2_Witness ==
    /\ FlipsReturned
    /\ Len(fetched) = 3
    /\ fetched[1].kind = "fail"
    /\ fetched[2].kind = "ok"
    /\ fetched[3].kind = "fail"
    /\ Len(Rows) = 3
    /\ ~IsErrorRow(Rows[1])

(* C3: a target whose summarize succeeded has a row exactly when the        *)
(* spreadPercent of its Summary is present and >= the threshold (0 by       *)
(* default); a failed target has its error row whatever the threshold.      *)
C3_ThresholdFilter ==
    FlipsReturned =>
        LET Keeps(i) == /\ Has(SummaryAt(i).spread.pct)
                        /\ NumLeq(Threshold, Val(SummaryAt(i).spread.pct))
        IN  \A i \in 1..Len(targets) :
                IF Failed(i)
                THEN Count(Rows, ErrorRowAt(i))
                        = Cardinality({k \in 1..Len(targets) :
                                          Failed(k) /\ ErrorRowAt(k) = ErrorRowAt(i)})
                ELSE Count(Rows, RowAt(i))
                        = Cardinality({k \in 1..Len(targets) :
                                          ~Failed(k) /\ Keeps(k) /\ RowAt(k) = RowAt(i)})

C3_Witness ==
    /\ FlipsReturned
    /\ fargs.min_spread_pct = Some(Norm(1, 2))
    /\ Len(fetched) = 3
    /\ fetched[1].kind = "ok" /\ SummaryAt(1).spread.pct = Some(Num(1))
    /\ fetched[2].kind = "ok" /\ SummaryAt(2).spread.pct = Some(Zero)
    /\ fetched[3].kind = "fail"
    /\ Len(Rows) = 2
    /\ Rows[1] = RowAt(1)

(* C4: the returned rows are in descending order of spread_pct and every    *)
(* error row comes after every numeric row, whatever the order of the       *)
(* fetches.                                                                *)
C4_RankedOutput ==
    FlipsReturned =>
        \A i, j \in 1..Len(Rows) :
            i < j =>
                /\ IsErrorRow(Rows[i]) => IsErrorRow(Rows[j])
                /\ (~IsErrorRow(Rows[i]) /\ ~IsErrorRow(Rows[j]))
                      => NumLeq(Val(Rows[j].spread_pct), Val(Rows[i].spread_pct))

C4_Witness ==
    /\ FlipsReturned
    /\ Len(fetched) = 3
    /\ fetched[1].kind = "fail"
    /\ fetched[2].kind = "ok"
    /\ fetched[3].kind = "ok"
    /\ Len(Rows) = 3
    /\ Rows[1].spread_pct = Some(Num(1))
    /\ Rows[2].spread_pct = Some(Zero)
    /\ IsErrorRow(Rows[3])


----------------------------------------------------------------------------
(* Vocabulary of the Summary properties *)

Summary == ret.val
MidSell == Summary.midpoints.sell
MidBuy == Summary.midpoints.buy
EligibleSide(side) ==
    SelectSeq(Book, LAMBDA o : Eligible(oargs, o) /\ o.order_type = side)

(* C5: the midpoint of a side is the median of the prices of its top        *)
(* min(k, length) orders (the cheapest sells, the highest buys): the middle *)
(* one for an odd window, the mean of the two middle ones for an even       *)
(* window; it is absent for an empty side. The scenario of the              *)
(* specification gives 90 and 75.                                          *)
C5_MidpointIsMedian ==
    GotSummary =>
        LET k == Summary.filters.depth
            S == SidePrices(oargs, Book, "sell")
            B == SidePrices(oargs, Book, "buy")
            ws == Min(k, Len(S))
            wb == Min(k, Len(B))
        IN  /\ MidSell = IF Len(S) = 0 THEN None ELSE Some(MedianOfRun(S, 0, ws))
            /\ MidBuy = IF Len(B) = 0 THEN None ELSE Some(MedianOfRun(B, Len(B) - wb, wb))
            /\ (Book = ScenarioBook /\ oargs.depth = Some(2))
                   => (MidSell = Some(Num(90)) /\ MidBuy = Some(Num(75)))

C5_Witness ==
    /\ GotSummary
    /\ Book = ScenarioBook
    /\ oargs.depth = Some(2)
    /\ MidSell = Some(Num(90))
    /\ MidBuy = Some(Num(75))

(* C6: spreadAbsolute is the buy midpoint minus the sell midpoint, an       *)
(* absent midpoint counting as 0; it is always a finite number.            *)
C6_SpreadAbsolute ==
    GotSummary =>
        LET x == Summary.spread.absolute
        IN  /\ IsFinite(x)
            /\ (Has(MidSell) /\ Has(MidBuy)) => NumAdd(x, Val(MidSell)) = Val(MidBuy)
            /\ (~Has(MidSell) /\ Has(MidBuy)) => x = Val(MidBuy)
            /\ (Has(MidSell) /\ ~Has(MidBuy)) => NumAdd(x, Val(MidSell)) = Zero
            /\ (~Has(MidSell) /\ ~Has(MidBuy)) => x = Zero

C6_Witness ==
    /\ GotSummary
    /\ ~Has(MidSell)
    /\ MidBuy = Some(Norm(3, 2))
    /\ Summary.spread.absolute = Norm(3, 2)

(* C7: spreadPercent is absent exactly when the sell midpoint is absent or  *)
(* 0, and is otherwise the finite quotient spreadAbsolute / midpointSell.   *)
C7_SpreadPercent ==
    GotSummary =>
        LET x == Summary.spread.absolute
            pct == Summary.spread.pct
        IN  /\ ~Has(pct) <=> (~Has(MidSell) \/ MidSell = Some(Zero))
            /\ Has(pct) =>
                  /\ IsFinite(Val(pct))
                  /\ Val(pct).n * Val(MidSell).n * x.d = x.n * Val(pct).d * Val(MidSell).d

C7_Witness ==
    /\ GotSummary
    /\ Summary.totals.sells > 0
    /\ MidSell = Some(Zero)
    /\ Has(MidBuy)
    /\ ~Has(Summary.spread.pct)

(* C8: the best sell is the cheapest eligible sell and the best buy the     *)
(* highest eligible buy; a best quote is absent exactly when its side has   *)
(* no eligible order, and it is the projection of an eligible order.       *)
C8_BestQuotes ==
    GotSummary =>
        LET S == EligibleSide("sell")
            B == EligibleSide("buy")
        IN  /\ Has(Summary.best_sell) <=> Len(S) > 0
            /\ Has(Summary.best_buy) <=> Len(B) > 0
            /\ Len(S) > 0 =>
                  /\ \A o \in Range(S) : Val(Summary.best_sell).platinum <= o.platinum
                  /\ \E o \in Range(S) : quote(o) = Val(Summary.best_sell)
            /\ Len(B) > 0 =>
                  /\ \A o \in Range(B) : Val(Summary.best_buy).platinum >= o.platinum
                  /\ \E o \in Range(B) : quote(o) = Val(Summary.best_buy)

C8_Witness ==
    /\ GotSummary
    /\ Has(Summary.best_sell)
    /\ \E o \in Range(Book) :
          /\ o.order_type = "sell"
          /\ ~Eligible(oargs, o)
          /\ o.platinum < Val(Summary.best_sell).platinum

(* C9: under the floor any every order passes the status predicate, under   *)
(* ingame exactly the orders of sellers in game, under online exactly those *)
(* of sellers in game or online; an order without a seller or with an       *)
(* absent or offline status passes only under any.                         *)
StatusExpected(floor, o) ==
    CASE floor = "any" -> TRUE
      [] floor = "ingame" -> UserStatus(o) = Some("ingame")
      [] floor = "online" -> UserStatus(o) \in {Some("ingame"), Some("online")}

PassesOthers(o) == visibleOk(o) /\ reputationOk(oargs, o) /\ regionOk(oargs, o)

C9_StatusPredicate ==
    (tool = "wfm_get_orders" /\ pc = "returned") =>
        LET floor == StatusOf(oargs)
            expected == SelectSeq(Book, LAMBDA o : PassesOthers(o) /\ StatusExpected(floor, o))
        IN  /\ GotOrders =>
                \A o \in Range(Book) :
                    PassesOthers(o) => (o \in Range(ret.val) <=> StatusExpected(floor, o))
            /\ GotSummary =>
                Summary.totals.sells + Summary.totals.buys
                    = Len(SelectSeq(expected, LAMBDA o : o.order_type \in Sides))

C9_Witness ==
    /\ GotOrders
    /\ StatusOf(oargs) = "online"
    /\ \E i, j \in 1..Len(Book) :
          /\ UserStatus(Book[i]) = Some("online") /\ Book[i] \in Range(ret.val)
          /\ UserStatus(Book[j]) = Some("offline") /\ PassesOthers(Book[j])
          /\ Book[j] \notin Range(ret.val)

(* C10: for one order list and fixed minReputation and region, the orders   *)
(* kept under ingame are among those kept under online, which are among     *)
(* those kept under any; the sell and buy counts never grow when the floor  *)
(* is tightened.                                                           *)
KeptUnder(floor) == filterOrders([oargs EXCEPT !.status = Some(floor)], Book)
TotalsUnder(floor) == summaryOf([oargs EXCEPT !.status = Some(floor)], Book).totals

C10_FloorContainment ==
    (tool = "wfm_get_orders" /\ pc = "returned") =>
        /\ GotOrders => ret.val = KeptUnder(StatusOf(oargs))
        /\ GotSummary => Summary.totals = TotalsUnder(StatusOf(oargs))
        /\ \A o \in Range(Book) :
              /\ Count(KeptUnder("ingame"), o) <= Count(KeptUnder("online"), o)
              /\ Count(KeptUnder("online"), o) <= Count(KeptUnder("any"), o)
        /\ TotalsUnder("ingame").sells <= TotalsUnder("online").sells
        /\ TotalsUnder("online").sells <= TotalsUnder("any").sells
        /\ TotalsUnder("ingame").buys <= TotalsUnder("online").buys
        /\ TotalsUnder("online").buys <= TotalsUnder("any").buys

C10_Witness ==
    /\ GotSummary
    /\ StatusOf(oargs) = "online"
    /\ Len(KeptUnder("ingame")) < Len(KeptUnder("online"))
    /\ Len(KeptUnder("online")) < Len(KeptUnder("any"))
    /\ TotalsUnder("ingame").sells < TotalsUnder("online").sells
    /\ TotalsUnder("online").buys < TotalsUnder("any").buys

----------------------------------------------------------------------------
(* Vocabulary of the Order Filter properties: the four predicates as the    *)
(* specification words them                                                *)

VisibleExpected(o) == o.visible # Some(FALSE)

ReputationExpected(o) ==
    IF ~Has(oargs.min_reputation) THEN TRUE
    ELSE /\ Has(o.user)
         /\ Has(Val(o.user).reputation)
         /\ Val(Val(o.user).reputation) >= Val(oargs.min_reputation)

(* a region given as the empty string counts as no region *)
RegionSupplied == Has(oargs.region) /\ Val(oargs.region) # ""

RegionExpected(o) ==
    IF ~RegionSupplied THEN TRUE
    ELSE \/ o.region = oargs.region
         \/ Has(o.user) /\ Val(o.user).region = oargs.region

(* C11: without minReputation no order is rejected for its reputation; with *)
(* an integer minReputation, 0 and negative ones included, an order passes  *)
(* exactly when its seller's reputation is present and >= minReputation, so *)
(* an order without seller or reputation is rejected under every threshold. *)
C11_ReputationPredicate ==
    (tool = "wfm_get_orders" /\ pc = "returned") =>
        LET others(o) == /\ visibleOk(o)
                         /\ statusOk(StatusOf(oargs), UserStatus(o))
                         /\ regionOk(oargs, o)
            expected == SelectSeq(Book, LAMBDA o : others(o) /\ ReputationExpected(o))
        IN  /\ GotOrders =>
                \A o \in Range(Book) :
                    others(o) => (o \in Range(ret.val) <=> ReputationExpected(o))
            /\ GotSummary =>
                Summary.totals.sells + Summary.totals.buys
                    = Len(SelectSeq(expected, LAMBDA o : o.order_type \in Sides))

C11_Witness ==
    /\ GotOrders
    /\ oargs.min_reputation = Some(0)
    /\ Len(Book) = 2
    /\ UserReputation(Book[1]) = None
    /\ UserReputation(Book[2]) = Some(0)
    /\ ret.val = <<Book[2]>>

(* C12: with a region supplied an order passes exactly when its own region  *)
(* or its seller's region equals it, so an order with another region of its *)
(* own passes when the seller's region matches; without a region no order   *)
(* is rejected for its region.                                             *)
C12_RegionPredicate ==
    (tool = "wfm_get_orders" /\ pc = "returned") =>
        LET others(o) == /\ visibleOk(o)
                         /\ statusOk(StatusOf(oargs), UserStatus(o))
                         /\ reputationOk(oargs, o)
            expected == SelectSeq(Book, LAMBDA o : others(o) /\ RegionExpected(o))
        IN  /\ GotOrders =>
                \A o \in Range(Book) :
                    others(o) => (o \in Range(ret.val) <=> RegionExpected(o))
            /\ GotSummary =>
                Summary.totals.sells + Summary.totals.buys
                    = Len(SelectSeq(expected, LAMBDA o : o.order_type \in Sides))

C12_Witness ==
    /\ GotOrders
    /\ oargs.region = Some("en")
    /\ Len(Book) = 2
    /\ Book[1].region = Some("ru") /\ UserRegion(Book[1]) = Some("ru")
    /\ Book[2].region = Some("ru") /\ UserRegion(Book[2]) = Some("en")
    /\ ret.val = <<Book[2]>>

(* C13: the Order Filter is idempotent: filtering the list it returned      *)
(* again, under the same criteria, returns that list unchanged.             *)
C13_FilterIdempotent ==
    GotOrders => filterOrders(oargs, ret.val) = ret.val

C13_Witness ==
    /\ GotOrders
    /\ StatusOf(oargs) = "online"
    /\ oargs.min_reputation = Some(1)
    /\ Len(Book) = 2
    /\ Len(ret.val) = 1

(* C14: with summarize = false the result is exactly the sub-sequence of    *)
(* the upstream orders that satisfy every active predicate, in upstream     *)
(* order: nothing invented, duplicated, reordered or sorted; an order       *)
(* without a visible flag is kept, one with visible = false is dropped.     *)
C14_RawIsFilteredSubsequence ==
    GotOrders =>
        ret.val = SelectSeq(Book, LAMBDA o : /\ VisibleExpected(o)
                                             /\ StatusExpected(StatusOf(oargs), o)
                                             /\ ReputationExpected(o)
                                             /\ RegionExpected(o))

C14_Witness ==
    /\ GotOrders
    /\ Len(Book) = 2
    /\ Book[1].visible = Some(FALSE)
    /\ Book[2].visible = None
    /\ Book[2].order_type = "buy"
    /\ ret.val = <<Book[2]>>

(* C15: the window k echoed in filters.depth is max(1, min(10, d)) for      *)
(* every integer depth d and 5 when no depth is given; it is always within  *)
(* 1..10.                                                                  *)
C15_WindowIsClampedDepth ==
    GotSummary =>
        /\ Summary.filters.depth
              = (IF Has(oargs.depth) THEN Max(1, Min(10, Val(oargs.depth))) ELSE 5)
        /\ Summary.filters.depth \in 1..10

(* C16: the ranking of a side is stable: the eligible orders of one price   *)
(* keep their upstream order within the ranked side, so the best quote      *)
(* among orders tied on the best price is the one that comes first in the   *)
(* input.                                                                  *)
C16_StableRanking ==
    GotSummary =>
        LET kept == SelectSeq(Book, LAMBDA o : Eligible(oargs, o))
            S == SelectSeq(kept, LAMBDA o : o.order_type = "sell")
            B == SelectSeq(kept, LAMBDA o : o.order_type = "buy")
            FirstAt(side, p) == side[CHOOSE i \in 1..Len(side) :
                                        /\ side[i].platinum = p
                                        /\ \A j \in 1..(i - 1) : side[j].platinum # p]
        IN  /\ \A p \in {o.platinum : o \in Range(S)} :
                  SelectSeq(sellsOf(kept), LAMBDA o : o.platinum = p)
                      = SelectSeq(S, LAMBDA o : o.platinum = p)
            /\ \A p \in {o.platinum : o \in Range(B)} :
                  SelectSeq(buysOf(kept), LAMBDA o : o.platinum = p)
                      = SelectSeq(B, LAMBDA o : o.platinum = p)
            /\ Len(S) > 0 =>
                  Summary.best_sell
                      = Some(quote(FirstAt(S, Val(Summary.best_sell).platinum)))
            /\ Len(B) > 0 =>
                  Summary.best_buy
                      = Some(quote(FirstAt(B, Val(Summary.best_buy).platinum)))

C16_Witness ==
    /\ GotSummary
    /\ Len(Book) = 2
    /\ Book[1].order_type = "sell" /\ Book[2].order_type = "sell"
    /\ Book[1].platinum = Book[2].platinum
    /\ quote(Book[1]) # quote(Book[2])
    /\ Summary.totals.sells = 2
    /\ Summary.best_sell = Some(quote(Book[1]))

----------------------------------------------------------------------------
(* Vocabulary of the request properties *)

(* the request ended with one of the two input-validation errors *)
ValidationError ==
    pc = "thrown" /\ ret.val \in {RequiredMsg, SnapshotRequiredMsg, NoTargetsMsg}

(* the catalog search was run and matched no entry *)
SearchCameUpEmpty ==
    /\ wantsSearch(fargs)
    /\ Has(items)
    /\ \A i \in 1..Len(Val(items)) :
          ~itemMatches(Val(items)[i], toLowerCase(Val(fargs.query)))

OrderCalls == SelectSeq(net, LAMBDA c : c.path = "orders")
CatalogCalls == SelectSeq(net, LAMBDA c : c.path = "items")

(* C17, as stated: a request that ends with an input-validation error (an   *)
(* item identifier missing or not a string, or no identifier resolvable)    *)
(* has issued no remote call, order fetch or catalog fetch, before it.      *)
C17_ValidationBeforeAnyCall ==
    ValidationError => net = << >>

(* C17, amended: a request that ends with an input-validation error has     *)
(* issued no order fetch, and no catalog fetch either unless the error is   *)
(* that of a catalog search that matched nothing, which comes after exactly *)
(* one catalog fetch.                                                      *)
C17_ValidationBeforeOrderFetch ==
    ValidationError =>
        /\ OrderCalls = << >>
        /\ IF tool = "wfm_best_flips" /\ wantsSearch(fargs)
           THEN SearchCameUpEmpty /\ net = <<ItemsCall>>
           ELSE net = << >>

C17_Witness ==
    /\ tool = "wfm_best_flips"
    /\ ret = Thrown(NoTargetsMsg)
    /\ fargs.query = Some(<<"c">>)
    /\ items = Some(Catalog)
    /\ net = <<ItemsCall>>

(* C18, as stated: wfm_best_flips fails as a whole only when no identifier  *)
(* can be resolved, and that failure is an input-validation error; in every *)
(* other execution it returns a result.                                    *)
C18_OnlyValidationFails ==
    tool = "wfm_best_flips" =>
        /\ pc = "thrown" => ret = Thrown(NoTargetsMsg) /\ Len(targets) = 0
        /\ Len(targets) > 0 => pc \in {"orders_await", "returned"}

(* C18, amended: wfm_best_flips fails as a whole only when no identifier    *)
(* can be resolved; the failure is the input-validation error when there is *)
(* neither a list nor a query or the search matched nothing, and the error  *)
(* of the catalog fetch when that fetch failed; in every other execution,   *)
(* whatever the order fetches do, it returns a result.                      *)
C18_FailsOnlyUnresolved ==
    tool = "wfm_best_flips" =>
        /\ pc = "thrown" =>
              /\ Len(targets) = 0
              /\ Len(explicitTargets(fargs)) = 0
              /\ IF wantsSearch(fargs) /\ ~Has(items)
                 THEN ret.val \in FetchErrors /\ net = <<ItemsCall>>
                 ELSE /\ ret = Thrown(NoTargetsMsg)
                      /\ wantsSearch(fargs) => SearchCameUpEmpty
        /\ Len(targets) > 0 => pc \in {"orders_await", "returned"}
        /\ pc = "returned" => ret.kind = "flips" /\ Len(targets) > 0

C18_Witness ==
    /\ tool = "wfm_best_flips"
    /\ pc = "thrown"
    /\ wantsSearch(fargs)
    /\ items = None
    /\ ret = Thrown("WFM GET -> 503 Service Unavailable")

(* C19: a non-empty explicit list is the target list as it is and the query *)
(* is ignored; otherwise, with a query, the targets are the identifiers of  *)
(* the first L catalog entries, in catalog order, whose display name or     *)
(* identifier contains the query case-insensitively, L being limit_search   *)
(* clamped to 1..50 and 10 when not supplied; min(matches, L) <= 50 targets.*)
C19_TargetResolution ==
    (tool = "wfm_best_flips" /\ pc \in {"orders_await", "returned", "thrown"}) =>
        IF Len(explicitTargets(fargs)) > 0
        THEN targets = Val(fargs.url_names) /\ CatalogCalls = << >>
        ELSE (Has(fargs.query) /\ Has(items)) =>
            LET L == IF Has(fargs.limit_search)
                     THEN Max(1, Min(50, Val(fargs.limit_search))) ELSE 10
                q == toLowerCase(Val(fargs.query))
                hit(it) ==
                    \/ Has(it.item_name) /\ includes(toLowerCase(Val(it.item_name)), q)
                    \/ Has(it.url_name) /\ includes(toLowerCase(Val(it.url_name)), q)
                hits == SelectSeq(Val(items), hit)
            IN  /\ Len(targets) = Min(Len(hits), L)
                /\ Len(targets) <= 50
                /\ \A j \in 1..Len(targets) : targets[j] = slugOf(hits[j])

(* C20, as stated: a wfm_get_orders request that passes validation issues   *)
(* exactly one order fetch; wfm_best_flips issues exactly one order fetch   *)
(* per entry of the resolved target list, n entries giving n fetches, plus  *)
(* exactly one catalog fetch if and only if the explicit list is empty and  *)
(* a query is given; a failed fetch is never issued again.                  *)
C20_OneFetchPerEntry ==
    /\ (tool = "wfm_get_orders" /\ pc \in {"returned", "thrown"}
            /\ validSlug(oargs.url_name)) => net = <<OrdersCall(oargs.url_name)>>
    /\ FlipsReturned =>
          /\ Len(OrderCalls) = Len(targets)
          /\ \A i \in 1..Len(targets) :
                Count(OrderCalls, OrdersCall(targets[i])) = Count(targets, targets[i])
          /\ Len(CatalogCalls) = IF wantsSearch(fargs) THEN 1 ELSE 0

(* C20, amended: a wfm_get_orders request that passes validation issues     *)
(* exactly one order fetch; wfm_best_flips issues exactly one order fetch   *)
(* per entry of the resolved target list that is a non-empty string, in     *)
(* list order, and none for an entry that validation rejects, plus exactly  *)
(* one catalog fetch if and only if the explicit list is empty and a query  *)
(* is given; a failed fetch is never issued again.                          *)
C20_OneFetchPerValidEntry ==
    /\ tool = "wfm_get_orders" =>
          net = IF validSlug(oargs.url_name) THEN <<OrdersCall(oargs.url_name)>>
                ELSE << >>
    /\ tool = "wfm_best_flips" =>
          LET reached == IF pc = "orders_await" THEN idx
                         ELSE IF pc = "returned" THEN Len(targets) ELSE 0
              valid == SelectSeq(SubSeq(targets, 1, reached), validSlug)
          IN  /\ OrderCalls = [j \in 1..Len(valid) |-> OrdersCall(valid[j])]
              /\ CatalogCalls = IF wantsSearch(fargs) THEN <<ItemsCall>> ELSE << >>
              /\ Len(net) = Len(OrderCalls) + Len(CatalogCalls)

C20_Witness ==
    /\ FlipsReturned
    /\ Len(targets) = 3
    /\ ~validSlug(targets[2])
    /\ fetched[1].kind = "fail"
    /\ fetched[3].kind = "ok"
    /\ net = <<OrdersCall(targets[1]), OrdersCall(targets[3])>>

(* C22: the summary returned by wfm_price_snapshot is the result of         *)
(* wfm_get_orders for the same url_name, status, min_reputation, region and *)
(* depth with summarize = true, on the same upstream response: the four     *)
(* optional filters are forwarded, none is dropped.                         *)
C22_SnapshotIsTheSummary ==
    (tool = "wfm_price_snapshot" /\ pc = "returned") =>
        ret.val.summary
            = summaryOf([url_name |-> sargs.url_name, summarize |-> Some(TRUE),
                           status |-> sargs.status,
                           min_reputation |-> sargs.min_reputation,
                           region |-> sargs.region, depth |-> sargs.depth], Book)

(* C23: when wfm_best_flips is called without status and depth, every item  *)
(* is summarized under the floor ingame with depth 3: each row echoes them  *)
(* and is the row of its book cut down to the visible orders of sellers in  *)
(* game; wfm_get_orders called without them echoes any and 5.               *)
InGameOnly(orders) ==
    SelectSeq(orders, LAMBDA o : VisibleExpected(o) /\ UserStatus(o) = Some("ingame"))

C23_RankerDefaults ==
    /\ (FlipsReturned /\ ~Has(fargs.status) /\ ~Has(fargs.depth)) =>
          \A r \in Range(Rows) :
              ~IsErrorRow(r) =>
                  /\ Val(r.filters).status = "ingame"
                  /\ Val(r.filters).depth = 3
                  /\ \E i \in 1..Len(targets) :
                        /\ ~Failed(i)
                        /\ r = flipRow(targets[i],
                                       summaryOf([DefaultArgs EXCEPT
                                                     !.url_name = targets[i],
                                                     !.status = Some("ingame"),
                                                     !.depth = Some(3),
                                                     !.min_reputation = fargs.min_reputation,
                                                     !.region = fargs.region],
                                                 InGameOnly(fetched[i].orders)))
    /\ (GotSummary /\ ~Has(oargs.status) /\ ~Has(oargs.depth)) =>
          /\ Summary.filters.status = "any"
          /\ Summary.filters.depth = 5

C23_Witness ==
    /\ FlipsReturned
    /\ ~Has(fargs.status) /\ ~Has(fargs.depth)
    /\ Len(targets) = 1
    /\ fetched[1].kind = "ok"
    /\ \E o \in Range(fetched[1].orders) : UserStatus(o) = Some("online")
    /\ Len(Rows) = 1
    /\ Val(Rows[1].totals).buys = 1
    /\ Rows[1].spread_pct = Some(Num(1))

(* C24: in wfm_best_flips an item one of whose midpoints is absent, for     *)
(* want of eligible orders on the sell or on the buy side, has a null       *)
(* spread_pct, and has no row when min_spread_pct > 0.                      *)
C24_AbsentMidpointNullSpread ==
    FlipsReturned =>
        \A i \in 1..Len(targets) :
            (/\ fetched[i].kind = "ok"
             /\ \/ ~Has(SummaryAt(i).midpoints.sell)
                \/ ~Has(SummaryAt(i).midpoints.buy)) =>
                /\ \A r \in Range(Rows) :
                      (~IsErrorRow(r) /\ r.url_name = targets[i]
                          /\ (r.mid_sell = None \/ r.mid_buy = None))
                          => r.spread_pct = None
                /\ NumLt(Zero, Threshold) => RowAt(i) \notin Range(Rows)

(* C25, as stated: when an item has eligible buy orders and no eligible     *)
(* sell order, the absent sell midpoint counting as 0 makes the emitted     *)
(* spreadAbsolute a negative number.                                       *)
OnlySide(side, other) ==
    GotSummary /\ Len(EligibleSide(side)) > 0 /\ Len(EligibleSide(other)) = 0

C25_BuysOnlyNegativeSpread ==
    OnlySide("buy", "sell") => NumLt(Summary.spread.absolute, Zero)

(* C25, amended: with eligible buy orders and no eligible sell order the    *)
(* emitted spreadAbsolute is the buy midpoint itself, never negative, and   *)
(* spreadPercent is absent; it is with eligible sell orders and no eligible *)
(* buy order that spreadAbsolute is minus the sell midpoint, never positive.*)
C25_OneSidedSpreadSign ==
    /\ OnlySide("buy", "sell") =>
          /\ Summary.spread.absolute = Val(MidBuy)
          /\ NumLeq(Zero, Summary.spread.absolute)
          /\ Summary.spread.pct = None
    /\ OnlySide("sell", "buy") =>
          /\ NumAdd(Summary.spread.absolute, Val(MidSell)) = Zero
          /\ NumLeq(Summary.spread.absolute, Zero)

C25_Witness ==
    /\ OnlySide("buy", "sell")
    /\ Len(Book) = 2
    /\ Book[1].order_type = "sell"
    /\ MidBuy = Some(Num(2))
    /\ Summary.spread.absolute = Num(2)

(* C26: within one wfm_best_flips request the order fetches go out one at a *)
(* time and in target order: the fetch of a target is issued only when the  *)
(* summaries of all the targets before it are back or have failed, at most  *)
(* one order fetch is in flight, and the catalog fetch, if there is one,    *)
(* is back before the first order fetch.                                   *)
Answered == SelectSeq(fetched, LAMBDA f : f.kind \in {"ok", "fail"})

C26_SequentialFetches ==
    tool = "wfm_best_flips" =>
        LET inflight == Len(OrderCalls) - Len(Answered)
        IN  /\ inflight \in {0, 1}
            /\ inflight = 1 <=> pc = "orders_await"
            /\ pc = "orders_await" =>
                  /\ net[Len(net)] = OrdersCall(targets[idx])
                  /\ Len(fetched) = idx - 1
            /\ pc = "items_await" => OrderCalls = << >> /\ net = <<ItemsCall>>
            /\ (wantsSearch(fargs) /\ OrderCalls # << >>) =>
                  /\ net[1] = ItemsCall
                  /\ Has(items)

C26_Witness ==
    /\ tool = "wfm_best_flips"
    /\ pc = "orders_await"
    /\ wantsSearch(fargs)
    /\ idx = 2
    /\ fetched[1].kind = "fail"
    /\ net = <<ItemsCall, OrdersCall(targets[1]), OrdersCall(targets[2])>>

(* C27: an explicit list holding an identifier that is empty or not a       *)
(* string next to valid ones does not fail the call: the invalid entry has  *)
(* an error row with the validation message and no fetch, the valid entries *)
(* are fetched and ranked as they are without it.                           *)
C27_InvalidEntryIsARow ==
    (tool = "wfm_best_flips" /\ Len(explicitTargets(fargs)) > 0) =>
        LET bad(i) == targets[i].t # "string" \/ targets[i].s = << >>
        IN  /\ pc # "thrown"
            /\ \A i \in 1..Len(fetched) : bad(i) <=> fetched[i] = NoFetch
            /\ \A c \in Range(OrderCalls) :
                  \E i \in 1..Len(targets) : ~bad(i) /\ c = OrdersCall(targets[i])
            /\ FlipsReturned =>
                  /\ \A i \in 1..Len(targets) :
                        bad(i) =>
                            Count(Rows, errorRow(targets[i], RequiredMsg))
                                = Cardinality({k \in 1..Len(targets) :
                                                  bad(k) /\ targets[k] = targets[i]})
                  /\ Len(Answered) = Cardinality({i \in 1..Len(targets) : ~bad(i)})
                  /\ SelectSeq(Rows, LAMBDA r : ~IsErrorRow(r))
                        = RankAlone(fargs,
                                    [j \in 1..Len(OkIndices) |-> targets[OkIndices[j]]],
                                    [j \in 1..Len(OkIndices) |-> fetched[OkIndices[j]].orders])

C27_Witness ==
    /\ FlipsReturned
    /\ Len(targets) = 2
    /\ targets[2].t = "number"
    /\ fetched[1].kind = "ok"
    /\ net = <<OrdersCall(targets[1])>>
    /\ Len(Rows) = 2
    /\ ~IsErrorRow(Rows[1])
    /\ Rows[2] = errorRow(targets[2], RequiredMsg)

(* C28: every row of wfm_best_flips that is not an error row agrees with    *)
(* the Summary of its item: the midpoints, spread_abs and spread_pct as     *)
(* recomputed by the ranker equal those of the Summary, and totals, filters *)
(* and the best quotes are the Summary's.                                   *)
C28_RowAgreesWithSummary ==
    FlipsReturned =>
        \A r \in Range(Rows) :
            ~IsErrorRow(r) =>
                \E i \in 1..Len(targets) :
                    /\ fetched[i].kind = "ok"
                    /\ r.url_name = targets[i]
                    /\ r.mid_sell = SummaryAt(i).midpoints.sell
                    /\ r.mid_buy = SummaryAt(i).midpoints.buy
                    /\ r.spread_abs = Some(SummaryAt(i).spread.absolute)
                    /\ r.spread_pct = SummaryAt(i).spread.pct
                    /\ r.totals = Some(SummaryAt(i).totals)
                    /\ r.filters = Some(SummaryAt(i).filters)
                    /\ r.best_sell = SummaryAt(i).best_sell
                    /\ r.best_buy = SummaryAt(i).best_buy

C28_Witness ==
    /\ FlipsReturned
    /\ fargs.min_spread_pct = Some(Num(-2))
    /\ Len(Rows) = 1
    /\ Rows[1].spread_abs = Some(Num(-1))
    /\ Rows[1].spread_pct = Some(Norm(-1, 2))
    /\ SummaryAt(1).spread.pct = Some(Norm(-1, 2))

(* C29: whenever a side has an eligible order, its midpoint lies between    *)
(* the smallest and the largest price of the side's top-k window; hence the *)
(* sell midpoint is >= the best sell price and the buy midpoint is <= the   *)
(* best buy price, for every depth.                                        *)
C29_MidpointWithinWindow ==
    GotSummary =>
        LET k == Summary.filters.depth
            S == SidePrices(oargs, Book, "sell")
            B == SidePrices(oargs, Book, "buy")
            ws == Min(k, Len(S))
            wb == Min(k, Len(B))
        IN  /\ Len(S) > 0 =>
                  /\ Has(MidSell)
                  /\ NumLeq(Num(OrderStat(S, 1)), Val(MidSell))
                  /\ NumLeq(Val(MidSell), Num(OrderStat(S, ws)))
                  /\ NumLeq(Num(Val(Summary.best_sell).platinum), Val(MidSell))
            /\ Len(B) > 0 =>
                  /\ Has(MidBuy)
                  /\ NumLeq(Num(OrderStat(B, Len(B) - wb + 1)), Val(MidBuy))
                  /\ NumLeq(Val(MidBuy), Num(OrderStat(B, Len(B))))
                  /\ NumLeq(Val(MidBuy), Num(Val(Summary.best_buy).platinum))

C29_Witness ==
    /\ GotSummary
    /\ oargs.depth = Some(2)
    /\ Len(SidePrices(oargs, Book, "sell")) = 2
    /\ Val(Summary.best_sell).platinum = 1
    /\ MidSell = Some(Norm(3, 2))

(* C30: every Summary is consistent with itself: on each side the best      *)
(* quote is absent iff the count is 0 iff the midpoint is absent; the two   *)
(* counts add up to the number of filtered orders that are sell or buy      *)
(* orders, so never to more than the number of filtered orders, an order of *)
(* any other type being counted on neither side.                            *)
C30_SummaryConsistent ==
    GotSummary =>
        LET kept == SelectSeq(Book, LAMBDA o : Eligible(oargs, o))
            sided == SelectSeq(kept, LAMBDA o : o.order_type \in Sides)
            total == Summary.totals.sells + Summary.totals.buys
        IN  /\ Summary.best_sell = None <=> Summary.totals.sells = 0
            /\ Summary.totals.sells = 0 <=> MidSell = None
            /\ Summary.best_buy = None <=> Summary.totals.buys = 0
            /\ Summary.totals.buys = 0 <=> MidBuy = None
            /\ total <= Len(kept)
            /\ total = Len(sided)
            /\ Summary.totals.sells
                  = Len(SelectSeq(kept, LAMBDA o : o.order_type = "sell"))
            /\ Summary.totals.buys
                  = Len(SelectSeq(kept, LAMBDA o : o.order_type = "buy"))

C30_Witness ==
    /\ GotSummary
    /\ Len(Book) = 2
    /\ Book[1].order_type = "buy"
    /\ Book[2].order_type = "closed"
    /\ Summary.totals = [sells |-> 0, buys |-> 1]
    /\ Summary.best_sell = None
    /\ MidSell = None
    /\ Val(Summary.best_buy).platinum = 1

----------------------------------------------------------------------------
(* C21: two requests whose remote calls interleave in any order each return *)
(* the result, or the error, that the request returns when it runs alone on *)
(* the responses it was given, and while a ranking is under way the rows it *)
(* has gathered are those of its own targets: no call reads or writes what  *)
(* the other call wrote.                                                   *)
TargetsAlone(f) ==
    IF wantsSearch(f.fargs) THEN searchTargets(f.fargs, Val(f.catalog).items)
    ELSE explicitTargets(f.fargs)

(* the rows of the first n targets of f, gathered with no other call around *)
RowsAlone(f, n) ==
    LET tg == TargetsAlone(f)
        acc[j \in 0..n] ==
            IF j = 0 THEN << >>
            ELSE IF ~validSlug(tg[j]) THEN pushError(acc[j - 1], tg[j], RequiredMsg)
            ELSE IF f.fetched[j].kind = "ok"
            THEN pushRow(f.fargs, acc[j - 1], tg[j],
                         summaryOf(itemArgs(f.fargs, tg[j]), f.fetched[j].orders))
            ELSE pushError(acc[j - 1], tg[j], f.fetched[j].error)
    IN  acc[n]

OrdersAlone(f) ==
    IF ~validSlug(f.oargs.url_name) THEN Thrown(RequiredMsg)
    ELSE IF f.fetched[1].kind # "ok" THEN Thrown(f.fetched[1].error)
    ELSE IF Coalesce(f.oargs.summarize, TRUE)
    THEN [kind |-> "summary", val |-> summaryOf(f.oargs, f.fetched[1].orders)]
    ELSE [kind |-> "orders", val |-> filterOrders(f.oargs, f.fetched[1].orders)]

FlipsAlone(f) ==
    IF wantsSearch(f.fargs) /\ Val(f.catalog).kind # "ok"
    THEN Thrown(Val(f.catalog).error)
    ELSE IF Len(TargetsAlone(f)) = 0 THEN Thrown(NoTargetsMsg)
    ELSE LET rows == RowsAlone(f, Len(TargetsAlone(f)))
         IN  [kind |-> "flips",
              val |-> [count |-> Len(rows), results |-> sortResults(rows)]]

C21_RequestsIndependent ==
    \A i \in Slots :
        LET f == reqs[i]
        IN  /\ f.pc \in {"returned", "thrown"} =>
                  f.ret = IF f.tool = "wfm_get_orders" THEN OrdersAlone(f)
                          ELSE FlipsAlone(f)
            /\ (f.tool = "wfm_best_flips" /\ f.pc = "orders_await") =>
                  heap[resultsCell(i)] = RowsAlone(f, Len(f.fetched))

C21_Witness ==
    /\ reqs[1].tool = "wfm_best_flips"
    /\ reqs[1].pc = "orders_await"
    /\ reqs[1].idx = 2
    /\ Len(heap[1]) = 1
    /\ reqs[2].tool = "wfm_best_flips"
    /\ reqs[2].pc = "returned"
    /\ Len(reqs[2].targets) = 2
    /\ Len(reqs[2].ret.val.results) = 2

====
